---- MODULE Spec2Model ----
(***************************************************************************)
(* A model of the supereeg example scripts:                                *)
(*   - recon_no_expand (docs/auto_examples/simulated_patient_data.py,      *)
(*     lines 202-214) and its caller (line 221): reconstruction of the     *)
(*     activity at the unknown locations by Gaussian conditioning;         *)
(*   - the batch evaluation loop of the same script (lines 88-162);        *)
(*   - the model-update example (examples/plot_update_model.py).           *)
(*                                                                         *)
(* Numbers.  A float is a record [k, n, d]: k = "fin" is the rational n/d  *)
(* in lowest terms, k = "nan" is NaN, k = "inf" is +inf (n = 1) or -inf    *)
(* (n = -1), and k = "z" is a finite Fisher z-value whose tanh is n/d      *)
(* (n/d = 1 stands for a z so large that tanh rounds to exactly 1.0).      *)
(* Rounding of finite results is not modelled.  The z-scored observation   *)
(* and the estimate are kept as classes "nan" / "zero" / "nonzero" /       *)
(* "finite", because a standard deviation is irrational in general.        *)
(***************************************************************************)
EXTENDS Integers, Sequences, FiniteSets, TLC

VARIABLES
    mo,            \* the model object: numerator, denominator, locs
    bo_sub,        \* the brain object to reconstruct: data, locs
    pc,            \* "ready" before the call of line 221, "returned" after
    model,         \* recon_no_expand's local correlation matrix
    unknown_inds,  \* recon_no_expand's local unknown_inds
    ret,           \* what recon_no_expand returned or raised
    predicted,     \* the caller's np.atleast_2d(recon_no_expand(...))
    bpc,           \* batch loop: "idle", "loop", "done" or "aborted"
    p_i,           \* batch loop: position in m_patients
    n_i,           \* batch loop: position in n_elecs
    i_i,           \* batch loop: position in patients
    d,             \* batch loop: the list of records
    upc,           \* update example: position in the script
    u_model,       \* update example: the variable model
    new_model,     \* update example: the variable new_model
    better_model,  \* update example: the variable better_model
    model_bos,     \* update example: len(model_bos)
    model_update_bos \* update example: len(model_update_bos)

vars == <<mo, bo_sub, pc, model, unknown_inds, ret, predicted,
          bpc, p_i, n_i, i_i, d, upc, u_model, new_model, better_model,
          model_bos, model_update_bos>>

reconVars == <<mo, bo_sub, pc, model, unknown_inds, ret, predicted>>
batchVars == <<bpc, p_i, n_i, i_i, d>>
updateVars == <<upc, u_model, new_model, better_model, model_bos, model_update_bos>>

----------------------------------------------------------------------------
(* Bounds of the model. *)

\* the largest number of model locations L
MaxL == 3

\* the largest number of time samples T of an observation
MaxT == 2

\* the largest number of subjects of a model, and of brain objects in an update
MaxSubs == 10

----------------------------------------------------------------------------
(* Floats. *)

Abs(x) == IF x < 0 THEN -x ELSE x

RECURSIVE GCD(_, _)
GCD(a, b) == IF b = 0 THEN a ELSE GCD(b, a % b)

Fin(n, dd) ==
    LET g == GCD(Abs(n), Abs(dd))
        s == IF dd < 0 THEN -1 ELSE 1
    IN  [k |-> "fin", n |-> (s * n) \div g, d |-> (s * dd) \div g]

Zero == Fin(0, 1)
One == Fin(1, 1)
Half == Fin(1, 2)
NaN == [k |-> "nan", n |-> 0, d |-> 1]
PosInf == [k |-> "inf", n |-> 1, d |-> 1]
NegInf == [k |-> "inf", n |-> -1, d |-> 1]

\* a finite Fisher z-value whose tanh is n/dd
ZVal(n, dd) == [k |-> "z", n |-> n, d |-> dd]

IsFin(x) == x.k = "fin"

\* IEEE sum and product on rationals and NaN (infinities never reach them:
\* z2r maps them into [-1, 1])
Add(x, y) ==
    IF IsFin(x) /\ IsFin(y) THEN Fin(x.n * y.d + y.n * x.d, x.d * y.d) ELSE NaN

Mul(x, y) ==
    IF IsFin(x) /\ IsFin(y) THEN Fin(x.n * y.n, x.d * y.d) ELSE NaN

Neg(x) == IF IsFin(x) THEN Fin(-x.n, x.d) ELSE NaN

\* x / y for finite x and finite y # 0
Quot(x, y) == Fin(x.n * y.d, x.d * y.n)

----------------------------------------------------------------------------
(* Two-dimensional arrays: [nr, nc, e], e a sequence of nr rows of nc      *)
(* entries.  An array may have no rows or no columns.                      *)

Mat(nr, nc, f) ==
    [nr |-> nr, nc |-> nc, e |-> [i \in 1..nr |-> [j \in 1..nc |-> f[<<i, j>>]]]]

\* the index set of an nr x nc array
Cells(nr, nc) == (1..nr) \X (1..nc)

RECURSIVE SumTo(_, _)
SumTo(f, n) == IF n = 0 THEN Zero ELSE Add(SumTo(f, n - 1), f[n])

\* the matrix product of conforming arrays
MatMul(A, B) ==
    LET entry(i, j) == SumTo([c \in 1..A.nc |-> Mul(A.e[i][c], B.e[c][j])], A.nc)
    IN  Mat(A.nr, B.nc, [x \in Cells(A.nr, B.nc) |-> entry(x[1], x[2])])

Transpose(A) ==
    LET entry(i, j) == A.e[j][i]
    IN  Mat(A.nc, A.nr, [x \in Cells(A.nc, A.nr) |-> entry(x[1], x[2])])

AllFinite(A) == \A i \in 1..A.nr : \A j \in 1..A.nc : IsFin(A.e[i][j])

AllNaN(nr, nc) ==
    LET entry(i, j) == NaN
    IN  Mat(nr, nc, [x \in Cells(nr, nc) |-> entry(x[1], x[2])])

----------------------------------------------------------------------------
(* The Moore-Penrose pseudo-inverse of a finite matrix, by Greville's      *)
(* column recursion (exact on rationals).                                  *)

\* the first kk columns of A
Cols(A, kk) ==
    LET entry(i, j) == A.e[i][j]
    IN  Mat(A.nr, kk, [x \in Cells(A.nr, kk) |-> entry(x[1], x[2])])

\* column kk of A, as an nr x 1 array
Col(A, kk) ==
    LET entry(i, j) == A.e[i][kk]
    IN  Mat(A.nr, 1, [x \in Cells(A.nr, 1) |-> entry(x[1], x[2])])

IsZeroMat(A) == \A i \in 1..A.nr : \A j \in 1..A.nc : A.e[i][j] = Zero

MatSub(A, B) ==
    LET entry(i, j) == Add(A.e[i][j], Neg(B.e[i][j]))
    IN  Mat(A.nr, A.nc, [x \in Cells(A.nr, A.nc) |-> entry(x[1], x[2])])

Scale(A, s) ==
    LET entry(i, j) == Mul(A.e[i][j], s)
    IN  Mat(A.nr, A.nc, [x \in Cells(A.nr, A.nc) |-> entry(x[1], x[2])])

\* the squared Euclidean norm of a column
NormSq(v) == MatMul(Transpose(v), v).e[1][1]

\* the rows of A followed by the rows of B
VStack(A, B) ==
    LET entry(i, j) == IF i <= A.nr THEN A.e[i][j] ELSE B.e[i - A.nr][j]
    IN  Mat(A.nr + B.nr, A.nc,
            [x \in Cells(A.nr + B.nr, A.nc) |-> entry(x[1], x[2])])

RECURSIVE Greville(_, _)
Greville(A, kk) ==
    LET a == Col(A, kk)
    IN  IF kk = 1
        THEN IF IsZeroMat(a) THEN Transpose(a)
             ELSE Scale(Transpose(a), Quot(One, NormSq(a)))
        ELSE LET P == Greville(A, kk - 1)
                 dk == MatMul(P, a)
                 ck == MatSub(a, MatMul(Cols(A, kk - 1), dk))
                 bk == IF ~IsZeroMat(ck)
                       THEN Scale(Transpose(ck), Quot(One, NormSq(ck)))
                       ELSE Scale(MatMul(Transpose(dk), P),
                                  Quot(One, Add(One, NormSq(dk))))
             IN  VStack(MatSub(P, MatMul(dk, bk)), bk)

\* column kk of A is a linear combination of the columns before it
DependentCol(A, kk) ==
    IF kk = 1 THEN IsZeroMat(Col(A, 1))
    ELSE IsZeroMat(MatSub(Col(A, kk),
             MatMul(Cols(A, kk - 1), MatMul(Greville(A, kk - 1), Col(A, kk)))))

RankDeficient(A) == \E kk \in 1..A.nc : DependentCol(A, kk)

PinvFinite(A) == IF A.nc = 0 THEN Transpose(A) ELSE Greville(A, A.nc)

----------------------------------------------------------------------------
(* recon_no_expand, line by line. *)

\* np.divide (line 205): the elementwise quotient of a numerator of Fisher
\* z-values by a denominator of weights 0 or 1
DivideEntry(z, w) ==
    IF w # Zero THEN z
    ELSE IF z.n = 0 THEN NaN
    ELSE IF z.n > 0 THEN PosInf ELSE NegInf

Divide(num, den) ==
    LET entry(i, j) == DivideEntry(num.e[i][j], den.e[i][j])
    IN  Mat(num.nr, num.nc, [x \in Cells(num.nr, num.nc) |-> entry(x[1], x[2])])

\* where np.divide stores its result: line 205 passes no out= argument, so
\* the quotient is a newly allocated array
DivideOutInPlace == "numerator"

DivideOut == "new"

\* z2r (supereeg._helpers.stats): the inverse Fisher transform, r = tanh(z)
z2rEntry(z) ==
    CASE z.k = "z" -> Fin(z.n, z.d)
      [] z.k = "inf" -> Fin(z.n, 1)
      [] OTHER -> NaN

z2r(Z) ==
    LET entry(i, j) == z2rEntry(Z.e[i][j])
    IN  Mat(Z.nr, Z.nc, [x \in Cells(Z.nr, Z.nc) |-> entry(x[1], x[2])])

\* a diagonal fix that only repairs the non-finite entries
FixDiagonalNonFinite(M) ==
    LET entry(i, j) == IF i = j /\ ~IsFin(M.e[i][j]) THEN One ELSE M.e[i][j]
    IN  Mat(M.nr, M.nc, [x \in Cells(M.nr, M.nc) |-> entry(x[1], x[2])])

\* model[np.eye(model.shape[0]) == 1] = 1 (line 206)
FixDiagonal(M) ==
    LET entry(i, j) == IF i = j THEN One ELSE M.e[i][j]
    IN  Mat(M.nr, M.nc, [x \in Cells(M.nr, M.nc) |-> entry(x[1], x[2])])

\* the labels 0 .. L-1 of the locations of a model of L locations
Locs(L) == [i \in 1..L |-> i - 1]

Range(s) == {s[i] : i \in 1..Len(s)}

RECURSIVE Without(_, _)
Without(s, labels) ==
    IF s = <<>> THEN <<>>
    ELSE IF Head(s) \in labels THEN Without(Tail(s), labels)
    ELSE <<Head(s)>> \o Without(Tail(s), labels)

\* what pandas raises for a label that is not in the index: KeyError, and
\* ValueError before pandas 0.21
DropErrors == {"KeyError", "ValueError"}

\* the complement by set difference, as line 261 computes it: a label that
\* is not in the index is ignored
DropIgnoreMissing(index, labels) ==
    {[error |-> "", index |-> Without(index, Range(labels))]}

\* DataFrame.drop(labels).index.values (lines 209-210): the index without
\* the labels, in its order; raises when a label is not in the index
Drop(index, labels) ==
    IF Range(labels) \subseteq Range(index)
    THEN {[error |-> "", index |-> Without(index, Range(labels))]}
    ELSE {[error |-> err, index |-> <<>>] : err \in DropErrors}

\* numpy's integer indexing along an axis of length L: a negative index
\* counts from the end; 0 stands for an IndexError
Position(i, L) ==
    IF 0 <= i /\ i < L THEN i + 1
    ELSE IF -L <= i /\ i < 0 THEN L + i + 1
    ELSE 0

InBounds(inds, L) == \A c \in 1..Len(inds) : Position(inds[c], L) # 0

\* M[rows, :][:, cols] (lines 211-212)
Take(M, rows, cols) ==
    LET entry(i, j) == M.e[Position(rows[i], M.nr)][Position(cols[j], M.nc)]
    IN  Mat(Len(rows), Len(cols),
            [x \in Cells(Len(rows), Len(cols)) |-> entry(x[1], x[2])])

RECURSIVE ColSum(_, _, _)
ColSum(X, c, t) == IF t = 0 THEN 0 ELSE ColSum(X, c, t - 1) + X.e[t][c]

ConstantCol(X, c) == \A t \in 1..X.nr : X.e[t][c] = X.e[1][c]

\* scipy.stats.zscore (line 213): (x - mean) / std along each column; the
\* standard deviation of a constant column is 0, and 0 / 0 is NaN
zscore(X) ==
    LET entry(t, c) == IF ConstantCol(X, c) THEN "nan"
                       ELSE IF X.nr * X.e[t][c] = ColSum(X, c, X.nr) THEN "zero"
                       ELSE "nonzero"
    IN  Mat(X.nr, X.nc, [x \in Cells(X.nr, X.nc) |-> entry(x[1], x[2])])

\* np.linalg.inv: raises for a singular matrix
PinvAsInv(A) ==
    IF ~AllFinite(A) \/ RankDeficient(A)
    THEN {[error |-> "LinAlgError", value |-> A]}
    ELSE {[error |-> "", value |-> PinvFinite(A)]}

\* np.linalg.pinv (line 214): the pseudo-inverse by SVD.  For an input with
\* a non-finite entry the SVD either fails to converge (LinAlgError) or
\* returns NaNs, depending on the LAPACK build
Pinv(A) ==
    IF AllFinite(A)
    THEN {[error |-> "", value |-> PinvFinite(A)]}
    ELSE {[error |-> "LinAlgError", value |-> A],
          [error |-> "", value |-> AllNaN(A.nc, A.nr)]}

\* one entry of np.dot(W, Y.T).T: the class of sum_c W[u, c] * Y[t, c]
EstEntry(W, Y, t, u) ==
    IF \E c \in 1..W.nc : ~IsFin(W.e[u][c]) \/ Y.e[t][c] = "nan" THEN "nan"
    ELSE IF \A c \in 1..W.nc : W.e[u][c] = Zero \/ Y.e[t][c] = "zero" THEN "zero"
    ELSE "finite"

\* an n-dimensional array: its shape and its entries in row-major order
Flat(A) == [x \in 1..(A.nr * A.nc) |->
               A.e[((x - 1) \div A.nc) + 1][((x - 1) % A.nc) + 1]]

NdArray(A) == [shape |-> <<A.nr, A.nc>>, data |-> Flat(A)]

\* np.squeeze (line 214): the axes of length 1 are removed
Squeeze(a) == [a EXCEPT !.shape = SelectSeq(a.shape, LAMBDA n : n # 1)]

\* np.atleast_2d (line 221): a scalar becomes 1 x 1, a vector of N a 1 x N row
AtLeast2d(a) ==
    IF Len(a.shape) = 0 THEN [a EXCEPT !.shape = <<1, 1>>]
    ELSE IF Len(a.shape) = 1 THEN [a EXCEPT !.shape = <<1>> \o a.shape]
    ELSE a

NoArray == [shape |-> <<>>, data |-> <<>>]

Raised(err) == [status |-> "error", error |-> err, value |-> NoArray]

Returned(a) == [status |-> "ok", error |-> "", value |-> a]

NotCalled == [status |-> "none", error |-> "", value |-> NoArray]

\* lines 211-214, once the unknown indices are known
Condition(M, unknown, bo) ==
    LET known == bo.locs
    IN  IF ~InBounds(known, M.nr) THEN {Raised("IndexError")}
        ELSE LET Kba == Take(M, unknown, known)
                 Kaa == Take(M, known, known)
                 Y == zscore(bo.data)
             IN  { IF pv.error # "" THEN Raised(pv.error)
                   ELSE IF Y.nc # Kba.nc THEN Raised("ValueError")
                   ELSE LET W == MatMul(Kba, pv.value)
                            entry(t, u) == EstEntry(W, Y, t, u)
                        IN  Returned(Squeeze(NdArray(Mat(Y.nr, W.nr,
                                [x \in Cells(Y.nr, W.nr) |-> entry(x[1], x[2])]))))
                   : pv \in Pinv(Kaa) }

\* recon_no_expand(bo_sub, mo) (lines 202-214): the local model, the local
\* unknown_inds and the outcome of the call
recon_no_expand(bo, m) ==
    LET M == FixDiagonal(z2r(Divide(m.numerator, m.denominator)))
    IN  UNION { IF dr.error # ""
                THEN {[model |-> M, unknown_inds |-> <<>>, ret |-> Raised(dr.error)]}
                ELSE {[model |-> M, unknown_inds |-> dr.index, ret |-> r]
                         : r \in Condition(M, dr.index, bo)}
              : dr \in Drop(m.locs, bo.locs) }

\* the model object after the call: the quotient of line 205 is a new array,
\* so the assignment of line 206 does not reach mo.numerator
MoAfter(m) ==
    IF DivideOut = "numerator"
    THEN [m EXCEPT !.numerator = Divide(m.numerator, m.denominator)]
    ELSE m

\* predicted = np.atleast_2d(recon_no_expand(bo_sub, mo)) (line 221)
Recon ==
    /\ pc = "ready"
    /\ \E o \in recon_no_expand(bo_sub, mo) :
          /\ model' = o.model
          /\ unknown_inds' = o.unknown_inds
          /\ ret' = o.ret
          /\ predicted' = IF o.ret.status = "ok"
                          THEN [defined |-> TRUE, value |-> AtLeast2d(o.ret.value)]
                          ELSE [defined |-> FALSE, value |-> NoArray]
    /\ pc' = "returned"
    /\ mo' = MoAfter(mo)
    /\ bo_sub' = bo_sub
    /\ UNCHANGED <<batchVars, updateVars>>

----------------------------------------------------------------------------
(* The inputs of a reconstruction. *)

\* a numerator entry with its denominator entry: r = 0, r = 1/2, r = 1 (a
\* saturated z), 0 / 0 and z / 0
OffDiagonalStats ==
    {<<ZVal(0, 1), One>>, <<ZVal(1, 2), One>>, <<ZVal(1, 1), One>>,
     <<ZVal(0, 1), Zero>>, <<ZVal(1, 2), Zero>>}

DiagonalStats == {<<ZVal(0, 1), Zero>>, <<ZVal(1, 2), One>>}

\* a symmetric model object of L locations: the pair of the first two
\* locations has the statistics p01, every other pair has rest
ModelObject(L, p01, rest, diag) ==
    LET stat(i, j) == IF i = j THEN diag
                      ELSE IF {i, j} = {1, 2} THEN p01 ELSE rest
        num(i, j) == stat(i, j)[1]
        den(i, j) == stat(i, j)[2]
    IN  [numerator |-> Mat(L, L,
            [x \in Cells(L, L) |-> num(x[1], x[2])]),
         denominator |-> Mat(L, L,
            [x \in Cells(L, L) |-> den(x[1], x[2])]),
         locs |-> Locs(L)]

ModelObjects(L) ==
    {ModelObject(L, p01, rest, diag) :
        p01 \in OffDiagonalStats, rest \in OffDiagonalStats, diag \in DiagonalStats}

RECURSIVE Ascending(_)
Ascending(S) ==
    IF S = {} THEN <<>>
    ELSE LET m == CHOOSE x \in S : \A y \in S : x <= y
         IN  <<m>> \o Ascending(S \ {m})

\* the index of the observed locations: an ascending subset of the labels
\* (line 105 sorts it), a descending pair, or a sequence with a label that
\* is not a location
KnownChoices(L) ==
    {Ascending(S) : S \in (SUBSET (0..(L - 1))) \ {{}}}
    \cup (IF L >= 2 THEN {<<1, 0>>} ELSE {})
    \cup {<<L>>, <<-1>>, <<0, L + 2>>}

\* T samples at Kp columns: all columns constant, all varying, or the first
\* constant and the others varying
Observation(T, Kp, kind) ==
    LET entry(t, c) == IF kind = "constant" \/ (kind = "mixed" /\ c = 1)
                       THEN 0 ELSE t % 2
    IN  Mat(T, Kp, [x \in Cells(T, Kp) |-> entry(x[1], x[2])])

BrainObjects(known) ==
    {[data |-> Observation(T, Kp, kind), locs |-> known] :
        T \in 1..MaxT, Kp \in {Len(known), Len(known) + 1},
        kind \in {"constant", "varying", "mixed"}}

NoModel == [nr |-> 0, nc |-> 0, e |-> <<>>]

NoPrediction == [defined |-> FALSE, value |-> NoArray]

\* the scenario of five locations with correlation 1/2 between every two,
\* locations 0 and 1 observed, ten samples of zeros
ScenarioModel ==
    ModelObject(5, <<ZVal(1, 2), One>>, <<ZVal(1, 2), One>>, <<ZVal(1, 1), One>>)

ScenarioBrain == [data |-> Observation(10, 2, "constant"), locs |-> <<0, 1>>]

BatchIdle == bpc = "idle" /\ p_i = 1 /\ n_i = 1 /\ i_i = 1 /\ d = <<>>

UpdateIdle ==
    /\ upc = "idle" /\ model_bos = 0 /\ model_update_bos = 0
    /\ u_model = [n_subs |-> 0] /\ new_model = [n_subs |-> 0]
    /\ better_model = [n_subs |-> 0]

ReconIdle ==
    /\ pc = "idle"
    /\ mo = ModelObject(0, <<Zero, Zero>>, <<Zero, Zero>>, <<Zero, Zero>>)
    /\ bo_sub = [data |-> Observation(0, 0, "constant"), locs |-> <<>>]
    /\ model = NoModel /\ unknown_inds = <<>> /\ ret = NotCalled
    /\ predicted = NoPrediction

Init ==
    /\ \/ \E L \in 1..MaxL : \E known \in KnownChoices(L) :
             /\ mo \in ModelObjects(L)
             /\ bo_sub \in BrainObjects(known)
       \/ mo = ScenarioModel /\ bo_sub = ScenarioBrain
    /\ pc = "ready"
    /\ model = NoModel
    /\ unknown_inds = <<>>
    /\ ret = NotCalled
    /\ predicted = NoPrediction
    /\ BatchIdle
    /\ UpdateIdle

Next == Recon

Spec == Init /\ [][Next]_vars

----------------------------------------------------------------------------
(* The batch evaluation loop (lines 88-162). *)

\* line 38
m_patients == <<50, 40>>

\* line 34
n_elecs == <<165, 85, 5>>

\* line 41
m_elecs == 170

\* line 160: the record of one iteration
Record(p, n) ==
    [Patients |-> p, ModelLocations |-> m_elecs, PatientLocations |-> n,
     Correlation |-> "mean"]

\* the iteration after (p_i, n_i, i_i) in the loops of lines 93, 99 and 102:
\* patients (line 96) holds m_patients[p_i] patients
LoopAdvance ==
    IF i_i < m_patients[p_i]
    THEN /\ i_i' = i_i + 1 /\ UNCHANGED <<p_i, n_i>> /\ bpc' = "loop"
    ELSE IF n_i < Len(n_elecs)
    THEN /\ i_i' = 1 /\ n_i' = n_i + 1 /\ UNCHANGED p_i /\ bpc' = "loop"
    ELSE IF p_i < Len(m_patients)
    THEN /\ i_i' = 1 /\ n_i' = 1 /\ p_i' = p_i + 1 /\ bpc' = "loop"
    ELSE /\ UNCHANGED <<p_i, n_i, i_i>> /\ bpc' = "done"

\* one pass of the loop body (lines 104-160) that runs to its end; after the
\* last one, line 162 builds the data frame
Iteration ==
    /\ bpc = "loop"
    /\ d' = Append(d, Record(m_patients[p_i], n_elecs[n_i]))
    /\ LoopAdvance
    /\ UNCHANGED <<reconVars, updateVars>>

\* one pass of the loop body in which a call raises (open, pickle.load,
\* model.predict, corr_column, ...): the body has no try block, so the
\* exception ends the script
IterationRaises ==
    /\ bpc = "loop"
    /\ bpc' = "aborted"
    /\ UNCHANGED <<p_i, n_i, i_i, d>>
    /\ UNCHANGED <<reconVars, updateVars>>

InitBatch ==
    /\ bpc = "loop" /\ p_i = 1 /\ n_i = 1 /\ i_i = 1 /\ d = <<>>
    /\ ReconIdle
    /\ UpdateIdle

NextBatch == Iteration \/ IterationRaises

SpecBatch == InitBatch /\ [][NextBatch]_vars

----------------------------------------------------------------------------
(* The model-update example (examples/plot_update_model.py). *)

\* line 47
n_subs == 10

\* the subject counts in the plot titles of lines 80, 84 and 88
TitleSubjects == <<10, 11, 20>>

\* se.Model(data=bos, locs=locs): a model of len(bos) subjects
Model(bos) == [n_subs |-> bos]

\* Model.update(data): the model it returns has the subjects of the
\* receiver and those of data
UpdateResult(self, ndata) == [n_subs |-> self.n_subs + ndata]

\* Model.update(data): the receiver after the call
UpdateSelf(self, ndata) == self

\* line 57: model = se.Model(data=model_bos, locs=locs)
CreateModel ==
    /\ upc = "start"
    /\ u_model' = Model(model_bos)
    /\ upc' = "created"
    /\ UNCHANGED <<new_model, better_model, model_bos, model_update_bos>>
    /\ UNCHANGED <<reconVars, batchVars>>

\* line 66: new_model = model.update(bo)
UpdateWithBo ==
    /\ upc = "created"
    /\ new_model' = UpdateResult(u_model, 1)
    /\ u_model' = UpdateSelf(u_model, 1)
    /\ upc' = "updated"
    /\ UNCHANGED <<better_model, model_bos, model_update_bos>>
    /\ UNCHANGED <<reconVars, batchVars>>

\* a second update chained on the result of the first
ListUpdateReceiverChained == new_model

\* the receiver of the update of line 73
ListUpdateReceiver == u_model

\* line 73: better_model = model.update(model_update_bos)
UpdateWithList ==
    /\ upc = "updated"
    /\ better_model' = UpdateResult(ListUpdateReceiver, model_update_bos)
    /\ u_model' = UpdateSelf(u_model, model_update_bos)
    /\ upc' = "done"
    /\ UNCHANGED <<new_model, model_bos, model_update_bos>>
    /\ UNCHANGED <<reconVars, batchVars>>

InitUpdate ==
    /\ upc = "start"
    /\ model_bos \in 1..MaxSubs
    /\ model_update_bos \in 1..MaxSubs
    /\ u_model = [n_subs |-> 0]
    /\ new_model = [n_subs |-> 0]
    /\ better_model = [n_subs |-> 0]
    /\ ReconIdle
    /\ BatchIdle

NextUpdate == CreateModel \/ UpdateWithBo \/ UpdateWithList

SpecUpdate == InitUpdate /\ [][NextUpdate]_vars

----------------------------------------------------------------------------
(* The state of a reconstruction call. *)

L == mo.numerator.nr

K == Len(bo_sub.locs)

T == bo_sub.data.nr

OutOfRange == \E c \in 1..K : bo_sub.locs[c] \notin 0..(L - 1)

Mismatch == bo_sub.data.nc # K

Distinct == \A a, b \in 1..K : a # b => bo_sub.locs[a] # bo_sub.locs[b]

ValidCall == K >= 1 /\ ~OutOfRange /\ ~Mismatch /\ Distinct

Kaa == Take(model, bo_sub.locs, bo_sub.locs)

StrictlyAscending(s) == \A a \in 1..(Len(s) - 1) : s[a] < s[a + 1]

\* in every call with in-range indices the observed-observed block carries
\* the unit diagonal of line 206, so it is never entirely non-finite
ObservedBlockHasUnitDiagonal ==
    (pc = "returned" /\ K >= 1 /\ ~OutOfRange)
        => \A c \in 1..K : Kaa.e[c][c] = One

----------------------------------------------------------------------------
(* The claims. *)

\* C1: for every valid call with 1 <= K < L that returns, the estimate the
\* caller holds has exactly T rows and L-K columns, also when T = 1 or
\* L-K = 1, and the unknown indices are strictly ascending.
C1_ShapeIsTByUnknown ==
    (pc = "returned" /\ ValidCall /\ K < L /\ ret.status = "ok")
        => /\ predicted.value.shape = <<T, L - K>>
           /\ StrictlyAscending(unknown_inds)
           /\ Len(unknown_inds) = L - K

\* The part of C1 the code keeps: the unknown indices are the L-K labels
\* that are not observed, strictly ascending.
UnknownIndicesAscending ==
    (pc = "returned" /\ ValidCall /\ ret.status = "ok")
        => /\ StrictlyAscending(unknown_inds)
           /\ Range(unknown_inds) = (0..(L - 1)) \ Range(bo_sub.locs)

C5_RankDeficientGivesFinite ==
    (pc = "returned" /\ ValidCall /\ K = 2 /\ AllFinite(model)
                     /\ RankDeficient(Kaa))
        => /\ ret.status = "ok"
           /\ \A x \in 1..Len(ret.value.data) : ret.value.data[x] # "nan"

\* The part of C5 the code keeps: rank deficiency of the observed block
\* never raises, and the estimate is finite when no observed column is
\* constant.
RankDeficiencyNeverRaises ==
    (pc = "returned" /\ ValidCall /\ AllFinite(model) /\ RankDeficient(Kaa))
        => /\ ret.status = "ok"
           /\ (\A c \in 1..K : ~ConstantCol(bo_sub.data, c))
                 => \A x \in 1..Len(ret.value.data) : ret.value.data[x] # "nan"

\* C6: a reconstruction call leaves the model object (numerator,
\* denominator, locations) and the observation as they were, whether it
\* returns or raises, also when line 206 re-fixes the diagonal.
C6_InputsUnchanged == [][mo' = mo /\ bo_sub' = bo_sub]_vars

C6_Witness ==
    /\ pc = "returned"
    /\ \E i \in 1..L : mo.denominator.e[i][i] = Zero /\ model.e[i][i] = One
    /\ \E i, j \in 1..L : i # j /\ mo.denominator.e[i][j] = Zero

\* C7: the matrix derived from the numerator and the denominator has every
\* diagonal entry exactly 1, whatever the statistics, also where the
\* denominator is zero and the ratio is not finite.
C7_UnitDiagonal ==
    pc = "returned"
        => /\ model.nr = L /\ model.nc = L
           /\ \A i \in 1..L : model.e[i][i] = One

C7_Witness ==
    /\ pc = "returned" /\ L >= 2
    /\ \E i \in 1..L : ~IsFin(z2r(Divide(mo.numerator, mo.denominator)).e[i][i])

\* C8: five locations with correlation 1/2 between every two, locations 0
\* and 1 observed, ten samples of zeros: the call returns a 10 x 3 estimate
\* whose entries are all exactly zero.
C8_ZerosGiveZeros ==
    (pc = "returned" /\ mo = ScenarioModel /\ bo_sub = ScenarioBrain)
        => /\ ret.status = "ok"
           /\ predicted.value.shape = <<10, 3>>
           /\ \A x \in 1..Len(predicted.value.data) :
                 predicted.value.data[x] = "zero"

RECURSIVE ExpectedRecords(_)
ExpectedRecords(k) ==
    IF k = 0 THEN 0 ELSE ExpectedRecords(k - 1) + Len(n_elecs) * m_patients[k]

\* C10: a failure in one iteration does not end the run: when the script
\* stops, d holds one record for every iteration (p, n, i).
C10_EveryIterationRecorded ==
    bpc # "loop" => Len(d) = ExpectedRecords(Len(m_patients))

====
